---- MODULE Spec2Model ----
(***************************************************************************)
(* A model of partsViewer.js: the URL build parser (parseBuildFromUrl),    *)
(* the catalog parser (parseDocxPartsData), and the page's asynchronous    *)
(* displayBuild pipeline writing to the DOM render sink.                   *)
(*                                                                         *)
(* JavaScript strings are sequences of one-character strings.  JavaScript  *)
(* numbers are records [k, v]: k = "num" with v the value in units of      *)
(* 1/Scale (fixed point), k = "inf" with v the sign, k = "nan".  The       *)
(* numeric grammar covers sign, Infinity, decimal digits with a fraction,  *)
(* and 0x/0o/0b literals; the inputs are drawn from alphabets without an   *)
(* exponent marker, so the exponent part is not modelled.                  *)
(***************************************************************************)
EXTENDS Integers, Sequences, FiniteSets, TLC

VARIABLES
    url,        \* parseBuildFromUrl: the argument
    urlRes,     \* parseBuildFromUrl: the completion (return value or throw)
    docx,       \* parseDocxPartsData: the argument
    docxRes,    \* parseDocxPartsData: the completion
    sink,       \* the page's DOM elements displayBuild writes
    req,        \* one record per displayBuild call so far: position and locals
    loaded      \* whether window.onload has run

vars == <<url, urlRes, docx, docxRes, sink, req, loaded>>

\* ------------------------------------------------------------------ bounds

MaxBuildLen == 3
FracDigits == 3
MaxInts == 2
MaxFields == 3
MaxRows == 1
MaxRequests == 2

\* ----------------------------------------------------------------- strings

RECURSIVE Pow(_, _)
Pow(b, n) == IF n = 0 THEN 1 ELSE b * Pow(b, n - 1)

Scale == Pow(10, FracDigits)

Min(a, b) == IF a < b THEN a ELSE b

\* String.prototype.trim's white space, as far as the inputs hold any.
IsSpace(c) == c \in {" ", "\t", "\n", "\r"}

RECURSIVE TrimStart(_)
TrimStart(s) ==
    IF s # <<>> /\ IsSpace(Head(s)) THEN TrimStart(Tail(s)) ELSE s

RECURSIVE TrimEnd(_)
TrimEnd(s) ==
    IF s # <<>> /\ IsSpace(s[Len(s)]) THEN TrimEnd(SubSeq(s, 1, Len(s) - 1)) ELSE s

Trim(s) == TrimEnd(TrimStart(s))

StartsWith(s, p) == Len(s) >= Len(p) /\ SubSeq(s, 1, Len(p)) = p

\* String.prototype.split(sep) for a non-empty separator: the pieces between
\* successive occurrences of sep, scanning left to right.
RECURSIVE SplitFrom(_, _, _)
SplitFrom(s, sep, cur) ==
    IF s = <<>> THEN <<cur>>
    ELSE IF StartsWith(s, sep)
         THEN <<cur>> \o SplitFrom(SubSeq(s, Len(sep) + 1, Len(s)), sep, <<>>)
         ELSE SplitFrom(Tail(s), sep, Append(cur, Head(s)))

Split(s, sep) == SplitFrom(s, sep, <<>>)

RECURSIVE Join(_, _)
Join(parts, sep) ==
    IF parts = <<>> THEN <<>>
    ELSE IF Len(parts) = 1 THEN parts[1]
    ELSE parts[1] \o sep \o Join(Tail(parts), sep)

\* Array.prototype.map(x => x.trim()).
TrimAll(fields) == [i \in 1..Len(fields) |-> Trim(fields[i])]

\* All sequences over A of length at most n.
SeqsUpTo(A, n) == UNION {[1..k -> A] : k \in 0..n}

\* ----------------------------------------------------------------- numbers

\* A JavaScript value: a number (see above), a string, or undefined.
NaN == [k |-> "nan", v |-> 0, s |-> <<>>]
Inf(sgn) == [k |-> "inf", v |-> sgn, s |-> <<>>]
Num(x) == [k |-> "num", v |-> x, s |-> <<>>]
JsStr(str) == [k |-> "str", v |-> 0, s |-> str]
Undefined == [k |-> "undef", v |-> 0, s |-> <<>>]
IsNumber(n) == n.k \in {"num", "inf", "nan"}
IsNaN(n) == n.k = "nan"

DigitVal(c) ==
    CASE c = "0" -> 0 [] c = "1" -> 1 [] c = "2" -> 2 [] c = "3" -> 3
      [] c = "4" -> 4 [] c = "5" -> 5 [] c = "6" -> 6 [] c = "7" -> 7
      [] c = "8" -> 8 [] c = "9" -> 9 [] c \in {"a", "A"} -> 10
      [] c \in {"b", "B"} -> 11 [] c \in {"c", "C"} -> 12
      [] c \in {"d", "D"} -> 13 [] c \in {"e", "E"} -> 14
      [] c \in {"f", "F"} -> 15 [] OTHER -> 99

IsDigit(c, radix) == DigitVal(c) < radix

RECURSIVE DigitRun(_, _)
DigitRun(s, radix) ==
    IF s # <<>> /\ IsDigit(Head(s), radix) THEN 1 + DigitRun(Tail(s), radix) ELSE 0

RECURSIVE IntValue(_, _)
IntValue(ds, radix) ==
    IF ds = <<>> THEN 0
    ELSE IntValue(SubSeq(ds, 1, Len(ds) - 1), radix) * radix + DigitVal(ds[Len(ds)])

\* The fraction digits as units of 1/Scale; digits past FracDigits are dropped.
FracValue(ds) ==
    LET kept == SubSeq(ds, 1, Min(Len(ds), FracDigits))
    IN  IntValue(kept, 10) * Pow(10, FracDigits - Len(kept))

InfinityLit == <<"I", "n", "f", "i", "n", "i", "t", "y">>

\* The longest prefix of s that is a StrUnsignedDecimalLiteral (without
\* exponent): [value, len], len = 0 when there is none.
UnsignedPrefix(s) ==
    IF StartsWith(s, InfinityLit) THEN [val |-> Inf(1), len |-> Len(InfinityLit)]
    ELSE
      LET ni == DigitRun(s, 10)
          rest == SubSeq(s, ni + 1, Len(s))
          dot == rest # <<>> /\ Head(rest) = "."
          nf == IF dot THEN DigitRun(Tail(rest), 10) ELSE 0
          ip == IntValue(SubSeq(s, 1, ni), 10) * Scale
      IN  IF ni = 0 /\ nf = 0 THEN [val |-> NaN, len |-> 0]
          ELSE IF dot
               THEN [val |-> Num(ip + FracValue(SubSeq(rest, 2, nf + 1))),
                     len |-> ni + 1 + nf]
               ELSE [val |-> Num(ip), len |-> ni]

Negate(n) == IF n.k = "nan" THEN n ELSE [n EXCEPT !.v = -n.v]

\* The longest prefix of s that is a StrDecimalLiteral (optional sign).
SignedPrefix(s) ==
    IF s # <<>> /\ Head(s) \in {"+", "-"}
    THEN LET u == UnsignedPrefix(Tail(s))
         IN  IF u.len = 0 THEN u
             ELSE [val |-> IF Head(s) = "-" THEN Negate(u.val) ELSE u.val,
                   len |-> u.len + 1]
    ELSE UnsignedPrefix(s)

RadixOf(s) ==
    IF Len(s) < 2 \/ s[1] # "0" THEN 0
    ELSE CASE s[2] \in {"x", "X"} -> 16
           [] s[2] \in {"o", "O"} -> 8
           [] s[2] \in {"b", "B"} -> 2
           [] OTHER -> 0

\* Number(string): white space trimmed, the empty string is 0, the whole of
\* the rest must be one numeric literal.
ToNumber(str) ==
    LET s == Trim(str)
        r == RadixOf(s)
        p == SignedPrefix(s)
    IN  IF s = <<>> THEN Num(0)
        ELSE IF r # 0
             THEN IF Len(s) > 2 /\ DigitRun(SubSeq(s, 3, Len(s)), r) = Len(s) - 2
                  THEN Num(IntValue(SubSeq(s, 3, Len(s)), r) * Scale)
                  ELSE NaN
        ELSE IF p.len = Len(s) THEN p.val ELSE NaN

\* parseFloat(string): leading white space skipped, the longest numeric
\* prefix converted, NaN when there is none.
ParseFloat(str) == SignedPrefix(TrimStart(str)).val

DigitChar(d) == <<"0", "1", "2", "3", "4", "5", "6", "7", "8", "9">>[d + 1]

RECURSIVE NatToStr(_)
NatToStr(n) == IF n < 10 THEN <<DigitChar(n)>> ELSE NatToStr(n \div 10) \o <<DigitChar(n % 10)>>

IntToStr(i) == IF i < 0 THEN <<"-">> \o NatToStr(-i) ELSE NatToStr(i)

\* --------------------------------------------------------- parseBuildFromUrl

\* A URL as the URL constructor sees it: whether it parses, and the query's
\* (name, value) pairs in order, names and values percent-decoded.
BuildName == <<"b", "u", "i", "l", "d">>

\* URLSearchParams.get: the first value of that name, or null.
Null == [present |-> FALSE, value |-> <<>>]
Present(str) == [present |-> TRUE, value |-> str]

RECURSIVE SearchParamsGet(_, _)
SearchParamsGet(params, name) ==
    IF params = <<>> THEN Null
    ELSE IF Head(params).name = name THEN Present(Head(params).value)
    ELSE SearchParamsGet(Tail(params), name)

\* The completion of parseBuildFromUrl: an index array, null, or a throw.
ReturnedIndices(ix) == [kind |-> "indices", indices |-> ix, segment |-> <<>>]
ReturnedNull == [kind |-> "null", indices |-> <<>>, segment |-> <<>>]
ThrewInvalidIndex(seg) == [kind |-> "invalid-index", indices |-> <<>>, segment |-> seg]
ThrewInvalidUrl == [kind |-> "invalid-url", indices |-> <<>>, segment |-> <<>>]
Threw(res) == res.kind \in {"invalid-index", "invalid-url"}

\* Array.prototype.map with a callback that throws: the first segment, in
\* order, that converts to NaN (0: none).
RECURSIVE FirstNaN(_)
FirstNaN(segs) ==
    IF segs = <<>> THEN 0
    ELSE IF IsNaN(ToNumber(Head(segs))) THEN 1
    ELSE LET r == FirstNaN(Tail(segs)) IN IF r = 0 THEN 0 ELSE r + 1

BuildSegments(buildParam) == Split(buildParam, <<"-">>)

\* if (buildParam): null and the empty string are both falsy.
Truthy(buildParam) == buildParam.present /\ buildParam.value # <<>>

parseBuildFromUrl(u) ==
    IF ~u.wellFormed THEN ThrewInvalidUrl
    ELSE LET buildParam == SearchParamsGet(u.params, BuildName)
         IN  IF Truthy(buildParam)
             THEN LET segs == BuildSegments(buildParam.value)
                      bad == FirstNaN(segs)
                  IN  IF bad # 0 THEN ThrewInvalidIndex(segs[bad])
                      ELSE ReturnedIndices([k \in 1..Len(segs) |-> ToNumber(segs[k])])
             ELSE ReturnedNull

\* -------------------------------------------------------- parseDocxPartsData

CRLF == <<"\r", "\n">>
Comma == <<",">>
NoDot == <<"N", "o", ".">>
ENLoadName == <<"E", "N", "L", "o", "a", "d">>
WeightName == <<"W", "e", "i", "g", "h", "t">>
NameName == <<"N", "a", "m", "e">>
KindName == <<"K", "i", "n", "d">>

\* filter(line => line.trim() !== '')
RECURSIVE NonBlank(_)
NonBlank(lines) ==
    IF lines = <<>> THEN <<>>
    ELSE IF Trim(Head(lines)) # <<>> THEN <<Head(lines)>> \o NonBlank(Tail(lines))
    ELSE NonBlank(Tail(lines))

\* filter(h => h !== 'No.')
RECURSIVE WithoutNoDot(_)
WithoutNoDot(hs) ==
    IF hs = <<>> THEN <<>>
    ELSE IF Head(hs) # NoDot THEN <<Head(hs)>> \o WithoutNoDot(Tail(hs))
    ELSE WithoutNoDot(Tail(hs))

DocxLines(docxContent) == NonBlank(Split(docxContent, CRLF))

DocxHeaders(headerLine) == WithoutNoDot(TrimAll(Split(headerLine, Comma)))

RowValues(line) == TrimAll(Split(line, Comma))

\* valueIndex: 1 when the untrimmed header line starts with "No.", else 0.
ValueIndex(headerLine) == IF StartsWith(headerLine, NoDot) THEN 1 ELSE 0

\* What the forEach body stores under a header for the value text val.
StoreField(header, val) ==
    IF header = ENLoadName \/ header = WeightName
    THEN LET f == ParseFloat(val)
         IN  IF IsNaN(f) /\ val # <<>> THEN Undefined
             ELSE IF val = <<>> THEN Undefined
             ELSE f
    ELSE JsStr(val)

\* The part object of one data line: a later duplicate header overwrites.
LastIndexOf(headers, h) ==
    CHOOSE i \in 1..Len(headers) :
        headers[i] = h /\ \A j \in (i + 1)..Len(headers) : headers[j] # h

BuildPart(headers, values, valueIndex) ==
    [h \in {headers[i] : i \in 1..Len(headers)} |->
        StoreField(h, values[valueIndex + LastIndexOf(headers, h)])]

RowFits(headers, values, valueIndex) == ~((valueIndex + Len(headers)) > Len(values))

RECURSIVE ParseRows(_, _, _)
ParseRows(rows, headers, valueIndex) ==
    IF rows = <<>> THEN <<>>
    ELSE LET values == RowValues(Head(rows))
             rest == ParseRows(Tail(rows), headers, valueIndex)
         IN  IF RowFits(headers, values, valueIndex)
             THEN <<BuildPart(headers, values, valueIndex)>> \o rest
             ELSE rest

ReturnedParts(ps) == [kind |-> "parts", parts |-> ps]
ThrewDocx(what) == [kind |-> what, parts |-> <<>>]

parseDocxPartsData(docxContent) ==
    LET lines == DocxLines(docxContent)
    IN  IF Len(lines) = 0 THEN ThrewDocx("empty-input")
        ELSE LET headers == DocxHeaders(lines[1])
             IN  IF Len(headers) = 0 THEN ThrewDocx("no-header")
                 ELSE LET parts == ParseRows(Tail(lines), headers, ValueIndex(lines[1]))
                      IN  IF Len(parts) = 0 /\ Len(lines) > 1
                          THEN ThrewDocx("no-valid-rows")
                          ELSE ReturnedParts(parts)

\* ------------------------------------------------------------- displayBuild

\* Number.prototype.toFixed(1): the sign, then the magnitude rounded to one
\* decimal, ties upwards.
ToFixed1(n) ==
    CASE n.k = "nan" -> <<"N", "a", "N">>
      [] n.k = "inf" -> IF n.v < 0 THEN <<"-">> \o InfinityLit ELSE InfinityLit
      [] OTHER ->
           LET a == IF n.v < 0 THEN -n.v ELSE n.v
               tenths == (a * 20 + Scale) \div (2 * Scale)
               digits == NatToStr(tenths \div 10) \o <<".", DigitChar(tenths % 10)>>
           IN  IF n.v < 0 THEN <<"-">> \o digits ELSE digits

\* The + of two numbers.
Add(a, b) ==
    CASE a.k = "nan" \/ b.k = "nan" -> NaN
      [] a.k = "inf" /\ b.k = "inf" -> IF a.v = b.v THEN a ELSE NaN
      [] a.k = "inf" -> a
      [] b.k = "inf" -> b
      [] OTHER -> Num(a.v + b.v)

ZeroText == <<"0", ".", "0">>
NotAvailable == <<"N", "/", "A">>
UnknownPartName == <<"unknown part">>
UnknownKind == <<"unknown">>

\* part.X: undefined when the catalog has no such column.
Prop(part, name) == IF name \in DOMAIN part THEN part[name] ELSE Undefined

\* x || fallback inside the template literal, for a string or undefined x.
OrElse(x, fallback) == IF x.k = "str" /\ x.s # <<>> THEN x.s ELSE fallback

StatText(x) == IF x.k # "undef" THEN ToFixed1(x) ELSE NotAvailable

\* The part-item element appended for a record.
PartElement(part) ==
    [name |-> OrElse(Prop(part, NameName), UnknownPartName),
     kind |-> OrElse(Prop(part, KindName), UnknownKind),
     en |-> StatText(Prop(part, ENLoadName)),
     wt |-> StatText(Prop(part, WeightName))]

\* AddStat without its guard: an absent stat is added as it is, and
\* number + undefined is NaN.
AddStatUnguarded(total, x) == IF IsNumber(x) THEN Add(total, x) ELSE NaN

\* typeof x === 'number' && !isNaN(x) ? total + x : total
AddStat(total, x) == IF IsNumber(x) /\ ~IsNaN(x) THEN Add(total, x) ELSE total

\* index >= 0 && index < partsData.length
IndexInRange(index, len) ==
    CASE index.k = "num" -> index.v >= 0 /\ index.v < len * Scale
      [] OTHER -> FALSE

\* partsData[index] is an element only for an integer index.
IndexIsElement(index) == index.v % Scale = 0

\* The forEach over buildIndices: the records taken and the elements appended
\* for them, the two running totals and partsFound.
RECURSIVE RenderLoop(_, _, _)
RenderLoop(indices, partsData, acc) ==
    IF indices = <<>> THEN acc
    ELSE LET index == Head(indices)
         IN  IF IndexInRange(index, Len(partsData)) /\ IndexIsElement(index)
             THEN LET part == partsData[(index.v \div Scale) + 1]
                  IN  RenderLoop(Tail(indices), partsData,
                        [recs |-> Append(acc.recs, part),
                         els |-> Append(acc.els, PartElement(part)),
                         en |-> AddStat(acc.en, Prop(part, ENLoadName)),
                         wt |-> AddStat(acc.wt, Prop(part, WeightName)),
                         found |-> TRUE])
             ELSE RenderLoop(Tail(indices), partsData, acc)

RenderStart == [recs |-> <<>>, els |-> <<>>, en |-> Num(0), wt |-> Num(0), found |-> FALSE]

\* The settled catalog fetch: a rejected fetch, a response that is not ok, or
\* the response's text.
getPartsDataFromDocx(outcome) ==
    CASE outcome.kind = "reject" -> ThrewDocx("fetch-rejected")
      [] outcome.kind = "http-error" -> ThrewDocx("http-status")
      [] OTHER -> parseDocxPartsData(outcome.text)

\* The elements and fields displayBuild resets on entry; the error region's
\* text is left as it was.
ResetSink(s) ==
    [parts |-> <<>>, totalEnLoad |-> ZeroText, totalWeight |-> ZeroText,
     errorHidden |-> TRUE, errorText |-> s.errorText, loadingHidden |-> TRUE]

\* ShowError without the line that hides the loading indicator.
ShowErrorLoadingLeft(s, text) == [s EXCEPT !.errorText = text, !.errorHidden = FALSE]

ShowError(s, text) ==
    [s EXCEPT !.errorText = text, !.errorHidden = FALSE, !.loadingHidden = TRUE]

\* One call's record: where it is, buildIndices while it waits, and once it
\* has ended how it ended, the catalog it got and the records it selected.
Call(pc, outcome, stage, indices) ==
    [pc |-> pc, outcome |-> outcome, stage |-> stage, buildIndices |-> indices,
     partsData |-> <<>>, selected |-> <<>>, partsFound |-> FALSE]

Ended(c, outcome, stage) ==
    [c EXCEPT !.pc = "done", !.outcome = outcome, !.stage = stage, !.buildIndices = <<>>]

\* displayBuild(null): the reset, then the early return.
DisplayBuildNoUrl(s) == [sink |-> ResetSink(s), call |-> Call("done", "idle", "none", <<>>)]

\* displayBuild(u) from the parse of the URL to its await, or to the return
\* of a failed parse; loading is the sink with the indicator shown.
AfterParse(loading, r) ==
    IF Threw(r)
    THEN [sink |-> ShowError(loading, "url-parse-error"),
          call |-> Call("done", "error", r.kind, <<>>)]
    ELSE IF r.kind = "null"
    THEN [sink |-> ShowError(loading, "no-build-info"),
          call |-> Call("done", "error", "no-build", <<>>)]
    ELSE [sink |-> loading, call |-> Call("await", "loading", "none", r.indices)]

DisplayBuildSync(s, u) ==
    AfterParse([ResetSink(s) EXCEPT !.loadingHidden = FALSE], parseBuildFromUrl(u))

\* The end of displayBuild once the forEach has run.
AfterRender(s, c, partsData, out) ==
    [sink |->
        [parts |-> s.parts \o out.els,
         totalEnLoad |-> ToFixed1(out.en),
         totalWeight |-> ToFixed1(out.wt),
         errorHidden |-> out.found,
         errorText |-> IF out.found THEN s.errorText ELSE "parts-not-found",
         loadingHidden |-> TRUE],
     call |-> [Ended(c, IF out.found THEN "success" ELSE "error",
                        IF out.found THEN "none" ELSE "not-found")
                 EXCEPT !.partsData = partsData,
                        !.selected = out.recs,
                        !.partsFound = out.found]]

\* displayBuild after its await, got being what getPartsDataFromDocx gave.
AfterFetch(s, c, got) ==
    IF got.kind # "parts"
    THEN [sink |-> ShowError(s, "parts-load-error"), call |-> Ended(c, "error", got.kind)]
    ELSE IF Len(got.parts) = 0
    THEN [sink |-> ShowError(s, "parts-empty"), call |-> Ended(c, "error", "empty-catalog")]
    ELSE AfterRender(s, c, got.parts, RenderLoop(c.buildIndices, got.parts, RenderStart))

\* window.location.search, and its includes('build=').
RECURSIVE Includes(_, _)
Includes(s, sub) ==
    IF Len(s) < Len(sub) THEN FALSE
    ELSE StartsWith(s, sub) \/ Includes(Tail(s), sub)

Search(u) ==
    IF u.params = <<>> THEN <<>>
    ELSE <<"?">> \o Join([k \in 1..Len(u.params) |->
                             u.params[k].name \o <<"=">> \o u.params[k].value], <<"&">>)

SearchIncludesBuild(u) == Includes(Search(u), BuildName \o <<"=">>)

\* ------------------------------------------- the parsers applied to inputs

\* Values of variables a specification does not use.
NoUrl == [wellFormed |-> FALSE, params |-> <<>>]
NoDocx == <<>>
Pending == [kind |-> "pending"]
NoSink == [parts |-> <<>>]

Param(n, val) == [name |-> n, value |-> val]
OtherName == <<"r", "e", "f">>
OtherParam == Param(OtherName, <<"1">>)

BuildAlphabet == {"0", "1", "2", "-", "x", " ", "."}
BuildValues == SeqsUpTo(BuildAlphabet, MaxBuildLen)

\* The URLs parseBuildFromUrl is applied to: one that does not parse, and
\* well-formed ones without a build parameter or with each build value.
UrlInputs ==
    {NoUrl}
    \cup {[wellFormed |-> TRUE, params |-> ps] : ps \in {<<>>, <<OtherParam>>}}
    \cup {[wellFormed |-> TRUE, params |-> <<Param(BuildName, b)>>] : b \in BuildValues}
    \cup {[wellFormed |-> TRUE, params |-> <<OtherParam, Param(BuildName, b)>>] :
             b \in BuildValues}

InitUrl ==
    /\ url \in UrlInputs
    /\ urlRes = Pending
    /\ docx = NoDocx /\ docxRes = Pending
    /\ sink = NoSink /\ req = <<>> /\ loaded = FALSE

\* One call parseBuildFromUrl(url).
CallParseBuildFromUrl ==
    /\ urlRes = Pending
    /\ urlRes' = parseBuildFromUrl(url)
    /\ UNCHANGED <<url, docx, docxRes, sink, req, loaded>>

SpecUrl == InitUrl /\ [][CallParseBuildFromUrl]_vars

\* Catalog texts: a header line of up to MaxFields fields and up to MaxRows
\* data lines of up to MaxFields fields, every line CRLF-terminated.
HeaderFieldChoices == {NoDot, <<" ">> \o NoDot, NameName, ENLoadName}
ValueFieldChoices ==
    {<<>>, <<"0">>, <<"N", "/", "A">>, InfinityLit, <<" ", "7", ".", "5">>}

FieldLists(choices) == SeqsUpTo(choices, MaxFields) \ {<<>>}
LineOf(fields) == Join(fields, Comma)
TextOf(lines) == Join(lines, CRLF) \o CRLF

HeaderLines == {LineOf(fs) : fs \in FieldLists(HeaderFieldChoices)}
DataLines == {LineOf(fs) : fs \in FieldLists(ValueFieldChoices)}

\* The catalog of the specification's round-trip example, and texts without
\* any line.
ExampleDocx ==
    TextOf(<<LineOf(<<NoDot, NameName, KindName, ENLoadName, WeightName>>),
             LineOf(<<<<"1">>, <<"L", "e", "g">>, <<"L", "i", "g", "h", "t">>,
                      <<"1", "0">>, <<"5">>>>)>>)

DocxInputs ==
    {<<>>, CRLF, CRLF \o CRLF, ExampleDocx}
    \cup {TextOf(<<h>> \o rows) : h \in HeaderLines, rows \in SeqsUpTo(DataLines, MaxRows)}

InitDocx ==
    /\ docx \in DocxInputs
    /\ docxRes = Pending
    /\ url = NoUrl /\ urlRes = Pending
    /\ sink = NoSink /\ req = <<>> /\ loaded = FALSE

\* One call parseDocxPartsData(docx).
CallParseDocxPartsData ==
    /\ docxRes = Pending
    /\ docxRes' = parseDocxPartsData(docx)
    /\ UNCHANGED <<url, urlRes, docx, sink, req, loaded>>

SpecDocx == InitDocx /\ [][CallParseDocxPartsData]_vars

\* ------------------------------------------------------------------ the page

WellFormed(ps) == [wellFormed |-> TRUE, params |-> ps]
BuildUrl(b) == WellFormed(<<Param(BuildName, b)>>)
RebuildName == <<"r", "e">> \o BuildName

\* What the user types or the location holds: no query, a build of three
\* indices (one repeated, one out of range), an out-of-range build, a
\* fractional index, a non-numeric segment, a parameter whose name only ends
\* in "build", and a text that is no URL.
TypedUrls ==
    {NoUrl, WellFormed(<<>>),
     BuildUrl(<<"0", "-", "0", "-", "9">>), BuildUrl(<<"5">>), BuildUrl(<<"1">>),
     BuildUrl(<<"0", ".", "5">>), BuildUrl(<<"1", "-", "x">>)}

LocationHrefs ==
    {WellFormed(<<>>), BuildUrl(<<"0", "-", "0", "-", "9">>),
     WellFormed(<<Param(RebuildName, <<"1">>)>>)}

\* What the catalog file may hold when it is fetched: two parts (one without
\* a weight), nothing, a header of No. alone, a header alone, a data line
\* shorter than the header.
TwoPartsDocx ==
    TextOf(<<LineOf(<<NoDot, NameName, KindName, ENLoadName, WeightName>>),
             LineOf(<<<<"1">>, <<"L", "e", "g">>, <<"L", "t">>, <<"1", "0">>, <<"5">>>>),
             LineOf(<<<<"2">>, <<"A", "r", "m">>, <<>>, <<"2", ".", "5">>, <<>>>>)>>)

CatalogTexts ==
    {TwoPartsDocx, <<>>,
     TextOf(<<NoDot, <<"1">>>>),
     TextOf(<<LineOf(<<NameName, ENLoadName>>)>>),
     TextOf(<<LineOf(<<NameName, KindName>>), <<"L", "e", "g">>>>)}

FetchOutcomes ==
    {[kind |-> "reject", text |-> <<>>], [kind |-> "http-error", text |-> <<>>]}
    \cup {[kind |-> "text", text |-> txt] : txt \in CatalogTexts}

\* What getPartsDataFromDocx gives a call for each of these.
SettledFetches == {getPartsDataFromDocx(outcome) : outcome \in FetchOutcomes}

\* The page as served, before window.onload: an empty container, and the
\* two regions hidden or not as the markup has them.
Init ==
    /\ sink \in {[parts |-> <<>>, totalEnLoad |-> ZeroText, totalWeight |-> ZeroText,
                   errorHidden |-> e, errorText |-> "", loadingHidden |-> l] :
                     e \in BOOLEAN, l \in BOOLEAN}
    /\ req = <<>>
    /\ loaded = FALSE
    /\ url = NoUrl /\ urlRes = Pending
    /\ docx = NoDocx /\ docxRes = Pending

Started(step) ==
    /\ sink' = step.sink
    /\ req' = Append(req, step.call)

Resumed(i, step) ==
    /\ sink' = step.sink
    /\ req' = [req EXCEPT ![i] = step.call]

\* window.onload: the automatic load when the location's query holds
\* "build=", displayBuild(null) otherwise.
OnLoad ==
    /\ ~loaded
    /\ loaded' = TRUE
    /\ \E href \in LocationHrefs :
          Started(IF SearchIncludesBuild(href) THEN DisplayBuildSync(sink, href)
                  ELSE DisplayBuildNoUrl(sink))
    /\ UNCHANGED <<url, urlRes, docx, docxRes>>

\* A click on the load button with a URL typed in.
ClickLoad ==
    /\ loaded
    /\ Len(req) < MaxRequests
    /\ \E inputUrl \in TypedUrls : Started(DisplayBuildSync(sink, inputUrl))
    /\ UNCHANGED <<url, urlRes, docx, docxRes, loaded>>

\* A click on the load button with nothing but white space typed in.
ClickEmpty ==
    /\ loaded
    /\ sink' = [parts |-> <<>>, totalEnLoad |-> ZeroText, totalWeight |-> ZeroText,
                 errorHidden |-> FALSE, errorText |-> "enter-url", loadingHidden |-> TRUE]
    /\ UNCHANGED <<url, urlRes, docx, docxRes, req, loaded>>

\* The catalog fetch of call i settles, getPartsDataFromDocx returns or
\* throws, and the call runs to its end.
FetchSettle(i) ==
    /\ req[i].pc = "await"
    /\ \E got \in SettledFetches : Resumed(i, AfterFetch(sink, req[i], got))
    /\ UNCHANGED <<url, urlRes, docx, docxRes, loaded>>

Next ==
    \/ OnLoad
    \/ ClickLoad
    \/ ClickEmpty
    \/ \E i \in 1..Len(req) : FetchSettle(i)

Spec == Init /\ [][Next]_vars

\* The page when the user waits for each load to end before the next click:
\* no two calls overlap.
SerialClickLoad == (\A i \in 1..Len(req) : req[i].pc = "done") /\ ClickLoad

SerialNext ==
    \/ OnLoad
    \/ SerialClickLoad
    \/ ClickEmpty
    \/ \E i \in 1..Len(req) : FetchSettle(i)

SerialSpec == Init /\ [][SerialNext]_vars

\* fetch() settles: every awaited fetch is eventually resolved or rejected.
FairSpec == Spec /\ \A i \in 1..MaxRequests : WF_vars(i \in 1..Len(req) /\ FetchSettle(i))

\* ------------------------------------------------ claims on parseBuildFromUrl

UrlBuild == SearchParamsGet(url.params, BuildName)
UrlSegments == BuildSegments(UrlBuild.value)

\* A segment that is a number as written: it holds something besides white
\* space and converts to a number.
NumericSegment(seg) == Trim(seg) # <<>> /\ ~IsNaN(ToNumber(seg))

HasOffendingSegment ==
    \E i \in 1..Len(UrlSegments) : ~NumericSegment(UrlSegments[i])

\* C1: on a well-formed URL whose non-empty build value has a segment that is not
\* numeric (an empty or white-space-only segment included), parseBuildFromUrl
\* throws the invalid-index error and the error names such a segment.
C1_NonNumericSegmentRejected ==
    (urlRes # Pending /\ url.wellFormed /\ UrlBuild.value # <<>> /\ HasOffendingSegment)
        => /\ urlRes.kind = "invalid-index"
           /\ \E i \in 1..Len(UrlSegments) :
                 UrlSegments[i] = urlRes.segment /\ ~NumericSegment(UrlSegments[i])

IntLists == SeqsUpTo(-2..2, MaxInts) \ {<<>>}
IntListText(L) == Join([k \in 1..Len(L) |-> IntToStr(L[k])], <<"-">>)

\* C2: when the build value is a hyphen-separated list of integers (negative
\* ones included), parseBuildFromUrl returns the integers, in order.
C2_IntegerListParsed ==
    \A L \in IntLists :
        (urlRes # Pending /\ url.wellFormed /\ UrlBuild.present
            /\ UrlBuild.value = IntListText(L))
        => urlRes = ReturnedIndices([k \in 1..Len(L) |-> Num(L[k] * Scale)])

\* C6: on a well-formed URL, parseBuildFromUrl returns null when the build
\* parameter is missing, and only then.
C6_NullIffBuildMissing ==
    (urlRes # Pending /\ url.wellFormed)
        => (urlRes.kind = "null" <=> ~UrlBuild.present)

\* ----------------------------------------------- claims on parseDocxPartsData

NumericHeaders == {ENLoadName, WeightName}

\* C5: in every returned record ENLoad and Weight are a finite number or
\* absent, never NaN and never infinite.
C5_StatsFiniteOrAbsent ==
    docxRes.kind = "parts"
        => \A i \in 1..Len(docxRes.parts) :
             \A h \in NumericHeaders \cap DOMAIN docxRes.parts[i] :
                docxRes.parts[i][h].k \in {"num", "undef"}

\* The header fields and the single data line's fields, column by column.
DocxHeaderFields == TrimAll(Split(DocxLines(docx)[1], Comma))
DocxRowFields == TrimAll(Split(DocxLines(docx)[2], Comma))

\* A text the column claim is about: a header holding a No. field and another
\* field, one data line with as many columns as the header.
ColumnCase ==
    /\ Len(DocxLines(docx)) = 2
    /\ \E c \in 1..Len(DocxHeaderFields) : DocxHeaderFields[c] = NoDot
    /\ \E c \in 1..Len(DocxHeaderFields) : DocxHeaderFields[c] # NoDot
    /\ Len(DocxRowFields) = Len(DocxHeaderFields)

UniqueHeader(c) ==
    \A d \in 1..Len(DocxHeaderFields) : DocxHeaderFields[d] = DocxHeaderFields[c] => d = c

\* C10: when the header holds a No. field, wherever it stands, the record of
\* a data line maps every remaining header to the value of its own column.
C10_ValuesUnderOwnHeader ==
    (docxRes # Pending /\ ColumnCase)
        => /\ docxRes.kind = "parts"
           /\ Len(docxRes.parts) = 1
           /\ \A c \in 1..Len(DocxHeaderFields) :
                 (DocxHeaderFields[c] # NoDot /\ UniqueHeader(c))
                    => docxRes.parts[1][DocxHeaderFields[c]]
                         = StoreField(DocxHeaderFields[c], DocxRowFields[c])

\* ------------------------------------------------------ claims on the page

\* Call i ends in this step: it returns before its await, or its fetch
\* settles and it runs to its end.
Ends(i) ==
    /\ i \in 1..Len(req')
    /\ req'[i].pc = "done"
    /\ (i > Len(req) \/ req[i].pc = "await")

Awaiting(i) == i \in 1..Len(req) /\ req[i].pc = "await"

Settled(i) ==
    i \in 1..Len(req) /\ req[i].pc = "done" /\ req[i].outcome \in {"success", "error"}

\* Call i ended past the catalog checks: the catalog was loaded and not empty.
CatalogLoaded(c) == c.pc = "done" /\ (c.outcome = "success" \/ c.stage = "not-found")

WithinCatalog(ix, C) == ix.k = "num" /\ 0 <= ix.v /\ ix.v < Len(C) * Scale
WholeIndex(ix) == ix.k = "num" /\ ix.v % Scale = 0

\* The records of C at the whole indices of I that lie within C, in the
\* order of I, one per occurrence.
RECURSIVE RecordsAt(_, _)
RecordsAt(I, C) ==
    IF I = <<>> THEN <<>>
    ELSE IF WithinCatalog(Head(I), C) /\ WholeIndex(Head(I))
         THEN <<C[(Head(I).v \div Scale) + 1]>> \o RecordsAt(Tail(I), C)
         ELSE RecordsAt(Tail(I), C)

\* The sum of a stat over records, an absent stat counting as zero.
RECURSIVE SumOf(_, _)
SumOf(records, name) ==
    IF records = <<>> THEN 0
    ELSE (IF Prop(Head(records), name).k = "num" THEN Prop(Head(records), name).v ELSE 0)
         + SumOf(Tail(records), name)

ElementsOf(records) == [k \in 1..Len(records) |-> PartElement(records[k])]

\* What a call that got the catalog C for the indices I appends and displays.
RendersSelection(I, C) ==
    /\ sink'.parts = sink.parts \o ElementsOf(RecordsAt(I, C))
    /\ sink'.totalEnLoad = ToFixed1(Num(SumOf(RecordsAt(I, C), ENLoadName)))
    /\ sink'.totalWeight = ToFixed1(Num(SumOf(RecordsAt(I, C), WeightName)))

IndicesWithin(I, C) == {k \in 1..Len(I) : WithinCatalog(I[k], C)}

\* C3 as stated: a call that loaded a non-empty catalog selects one record for
\* every index i with 0 <= i < length, in order, and displays their sums.
C3_EveryIndexInRangeSelected ==
    [][\A i \in 1..MaxRequests :
          (Ends(i) /\ CatalogLoaded(req'[i]))
            => /\ RendersSelection(req[i].buildIndices, req'[i].partsData)
               /\ Len(sink'.parts) - Len(sink.parts)
                    = Cardinality(IndicesWithin(req[i].buildIndices, req'[i].partsData))]_vars

\* C3 amended: a call that loaded a non-empty catalog appends, in the order of
\* its indices, the record at every whole index i with 0 <= i < length (once
\* per occurrence), skips every other index, and displays the sums of ENLoad
\* and Weight over the appended records, an absent stat counting as zero.
C3_WholeIndicesSelected ==
    [][\A i \in 1..MaxRequests :
          (Ends(i) /\ CatalogLoaded(req'[i]))
            => RendersSelection(req[i].buildIndices, req'[i].partsData)]_vars

\* A call ended with the first record selected twice (indices 0, 0 and 9),
\* its two elements in the container and twice its EN load displayed.
C3_Witness ==
    \E i \in 1..Len(req) :
        /\ req[i].outcome = "success"
        /\ Len(req[i].selected) = 2
        /\ req[i].selected[1] = req[i].partsData[1]
        /\ req[i].selected[2] = req[i].partsData[1]
        /\ sink.parts = ElementsOf(req[i].selected)
        /\ sink.totalEnLoad = <<"2", "0", ".", "0">>

SomeIndexResolved(I, C) == RecordsAt(I, C) # <<>>

\* C4: when a call that loaded the catalog ends, partsFound is true exactly
\* when an index resolved; if false, the container is empty, both totals read
\* 0.0 and the error region is shown; if true, the error region is hidden.
C4_FoundFlagAndSink ==
    [][\A i \in 1..MaxRequests :
          (Ends(i) /\ CatalogLoaded(req'[i]))
            => /\ req'[i].partsFound <=> SomeIndexResolved(req[i].buildIndices, req'[i].partsData)
               /\ ~req'[i].partsFound
                    => /\ sink'.parts = <<>>
                       /\ sink'.totalEnLoad = ZeroText /\ sink'.totalWeight = ZeroText
                       /\ ~sink'.errorHidden
               /\ req'[i].partsFound => sink'.errorHidden]_vars

FailureStages ==
    {"invalid-url", "invalid-index", "fetch-rejected", "http-status",
     "empty-input", "no-header", "no-valid-rows"}

\* C7: when a call ends in a failure of any stage, the error region is shown,
\* the container is empty, both totals read 0.0 and the loading indicator is
\* hidden.
C7_FailureLeavesNothingRendered ==
    [][\A i \in 1..MaxRequests :
          (Ends(i) /\ req'[i].stage \in FailureStages)
            => /\ ~sink'.errorHidden
               /\ sink'.parts = <<>>
               /\ sink'.totalEnLoad = ZeroText /\ sink'.totalWeight = ZeroText
               /\ sink'.loadingHidden]_vars

\* The sink shows what call c alone rendered.
ReflectsCall(s, c) ==
    /\ s.parts = ElementsOf(c.selected)
    /\ s.totalEnLoad = ToFixed1(Num(SumOf(c.selected, ENLoadName)))
    /\ s.totalWeight = ToFixed1(Num(SumOf(c.selected, WeightName)))

\* C9: when a call ends while another still waits for its fetch, the loading
\* indicator stays shown; when the last waiting call ends, the container and
\* the totals are those of one call.
C9_SinkReflectsOneRequest ==
    [][\A i \in 1..MaxRequests :
          Ends(i)
            => /\ (\E j \in 1..Len(req') : req'[j].pc = "await") => ~sink'.loadingHidden
               /\ (\A j \in 1..Len(req') : req'[j].pc = "done")
                    => \E j \in 1..Len(req') : ReflectsCall(sink', req'[j])]_vars

\* C8: every call with a URL that waits for the catalog ends, in Success or
\* Error, and when a call ends the loading indicator is hidden; once
\* window.onload has run and no call waits, the indicator is hidden; a call
\* without a URL ends Idle with the indicator and the error region hidden.
C8_LoadingEndsHidden ==
    /\ \A i \in 1..MaxRequests :
          Awaiting(i) ~> Settled(i)
    /\ [][\A i \in 1..MaxRequests :
            Ends(i) => /\ sink'.loadingHidden
                       /\ req'[i].outcome \in {"success", "error", "idle"}
                       /\ req'[i].outcome = "idle" => sink'.errorHidden]_vars
    /\ []((loaded /\ \A i \in 1..Len(req) : req[i].pc = "done") => sink.loadingHidden)

\* A call waited for the catalog with the indicator shown, and has ended.
C8_Witness ==
    \E i \in 1..Len(req) :
        /\ req[i].pc = "done"
        /\ req[i].outcome = "success"
        /\ sink.loadingHidden
        /\ \A j \in 1..Len(req) : req[j].pc = "done"

====
